---- MODULE Spec2Model ----
(***************************************************************************)
(* Model of the AD5932 frequency-scan generator driver (src/ad5932.c,      *)
(* src/ad5932.h).  The driver's globals and the four GPIO outputs it       *)
(* drives are the state; every C function is an operator over a machine    *)
(* record, computed as the C code computes it, and every callable          *)
(* function is an action.  The SSP library, the GPIO macros and delay_us   *)
(* are the environment: the bus answers each status poll and each transfer *)
(* nondeterministically.                                                   *)
(***************************************************************************)
EXTENDS Integers, Sequences, FiniteSets, TLC

(***************************************************************************)
(* Program constants (src/ad5932.h).                                       *)
(***************************************************************************)
AD5932_PORT_BUSY == 65535
AD5932_PARAM_ERROR == 65520
AD5932_ACCU_RESOLUTION == 16777216

DAC_EN == 1
DAC_DISABLE == 0
SINE_OUT == 1
TRIANGLE_OUT == 0
MSBOUT_EN == 1
MSBOUT_DISABLE == 0
AUTOMATIC_TRIGGER == 0
EXTERNAL_TRIGGER == 1
SYNCSEL_END == 1
SYNCSEL_SUBSEQVENT == 0
SYNCOUT_EN == 1
SYNCOUT_DISABLE == 0

AD5932_CREG == 0
AD5932_NINCR == 4096
AD5932_DFREQ_LO == 8192
AD5932_DFREQ_HI == 12288
AD5932_TINT_WCYCLES == 16384
AD5932_TINT_MCLKCYCLES == 24576
AD5932_FSTART_LO == 49152
AD5932_FSTART_HI == 53248

\* AD5932_SweepType_t and AD5932_IncIntervall_t: C bool enumerators, true = 1.
INCREMENTAL_SWEEP == 1
DECREMENTAL_SWEEP == 0
WAVE_OUT_BASED == 1
MCLK_INP_BASED == 0

\* The library's "bus is free" status, compared in AD5932_SendSPICommand.
SSP_STATUS_CLEAR == 0
SSP_STATUS_BUSY == SSP_STATUS_CLEAR + 1

(***************************************************************************)
(* Machine integers.  TLC's integers are 32-bit signed, so a u32 is kept   *)
(* as three little-endian base-4096 digits (12 + 12 + 8 bits) and the u64  *)
(* intermediate of the frequency conversion as a longer digit sequence.    *)
(* u16 words and s32 return codes fit TLC's integers and are kept as such. *)
(***************************************************************************)
Limb == 2 ^ 12

\* The u32 whose value is the integer n (0 <= n < 2^31).
U32(n) == <<n % Limb, (n \div Limb) % Limb, n \div (Limb * Limb)>>

\* Literals that do not fit a TLC integer.
U32_80000000 == <<0, 0, 128>>
U32_FFFFFFFF == <<4095, 4095, 255>>
U32_7FFFFFFF == <<4095, 4095, 127>>

\* a > b on digit sequences of equal length, most significant digit last.
RECURSIVE BigGt(_, _)
BigGt(a, b) ==
    IF Len(a) = 0 THEN FALSE
    ELSE IF a[Len(a)] # b[Len(b)] THEN a[Len(a)] > b[Len(b)]
    ELSE BigGt(SubSeq(a, 1, Len(a) - 1), SubSeq(b, 1, Len(b) - 1))

\* Carry propagation over columns that may exceed one digit.
RECURSIVE Carry(_, _)
Carry(cols, c) ==
    IF Len(cols) = 0 THEN <<>>
    ELSE <<(Head(cols) + c) % Limb>> \o Carry(Tail(cols), (Head(cols) + c) \div Limb)

RECURSIVE ColSum(_, _, _, _)
ColSum(a, b, k, i) ==
    IF i > Len(a) THEN 0
    ELSE (IF k + 1 - i \in 1..Len(b) THEN a[i] * b[k + 1 - i] ELSE 0) + ColSum(a, b, k, i + 1)

\* Schoolbook product of two digit sequences: Len(a) + Len(b) digits.
BigMul(a, b) == Carry([k \in 1..(Len(a) + Len(b)) |-> ColSum(a, b, k, 1)], 0)

\* Twelve steps of binary long division: the digit d is shifted into the
\* running remainder r, bit by bit from the top, against the divisor n.
RECURSIVE DivLimb(_, _, _, _, _)
DivLimb(r, d, j, q, n) ==
    IF j = 0 THEN <<r, q>>
    ELSE LET bit == (d \div (2 ^ (j - 1))) % 2
             r2 == 2 * r + bit
         IN  IF r2 >= n THEN DivLimb(r2 - n, d, j - 1, 2 * q + 1, n)
             ELSE DivLimb(r2, d, j - 1, 2 * q, n)

\* Quotient digits of the digit sequence D[1..i] (with incoming remainder r)
\* divided by the integer n, 0 < n < 2^30.
RECURSIVE BigDiv(_, _, _, _)
BigDiv(D, i, r, n) ==
    IF i = 0 THEN <<>>
    ELSE LET s == DivLimb(r, D[i], 12, 0, n)
         IN  Append(BigDiv(D, i - 1, s[1], n), s[2])

\* (u32) of a wider value: the low 32 bits.
ToU32(D) == <<D[1], D[2], D[3] % 256>>

\* (u16) of a u32: the low 16 bits, as an integer.
ToU16(x) == x[1] + Limb * (x[2] % 16)

\* x & 0x00000FFF and x >> 12 on a u32.
U32AndFFF(x) == x[1]
U32Shr12(x) == <<x[2], x[3], 0>>

\* Bitwise or of two naturals.
RECURSIVE BitOr(_, _)
BitOr(a, b) ==
    IF a = 0 THEN b
    ELSE IF b = 0 THEN a
    ELSE (IF a % 2 = 1 \/ b % 2 = 1 THEN 1 ELSE 0) + 2 * BitOr(a \div 2, b \div 2)

Shl(x, k) == x * (2 ^ k)

\* Bit k of a natural.
Bit(x, k) == (x \div (2 ^ k)) % 2

\* Faulty variant: the product is taken in 32 bits (the u64 cast left out).
FreqToTmp_NoWidening(value, mclk) ==
    LET narrow == ToU32(BigMul(value, U32(AD5932_ACCU_RESOLUTION)))
    IN  ToU32(BigDiv(narrow, Len(narrow), 0, mclk))

\* u32 tmp = (u64)value * AD5932_ACCU_RESOLUTION / ad5932MCLK
FreqToTmp(value, mclk) ==
    LET wide == BigMul(value, U32(AD5932_ACCU_RESOLUTION))
    IN  ToU32(BigDiv(wide, Len(wide), 0, mclk))

(***************************************************************************)
(* State.  SSPPort, ad5932CMD and ad5932MCLK are the driver's globals;     *)
(* SPARE0..SPARE3 are the GPIO outputs behind the pin setters (FSYNC,      *)
(* STANDBY, CTRL, INTERRUPT).  call is the caller's position: the function *)
(* entered, its arguments and where it stands in it.  ret is the s32 ret   *)
(* of the function in progress and, at pc = "done", the value returned.    *)
(* trace and steps are history: what the current call did on the pins and  *)
(* the bus, and, per register-programming step of a sequencing operation,  *)
(* what the step returned and how long the trace was when it did.          *)
(***************************************************************************)
VARIABLES SSPPort, ad5932CMD, ad5932MCLK, SPARE0, SPARE1, SPARE2, SPARE3, call, ret, steps, trace

vars == <<SSPPort, ad5932CMD, ad5932MCLK, SPARE0, SPARE1, SPARE2, SPARE3, call, ret, steps, trace>>

(***************************************************************************)
(* Input domains.                                                          *)
(***************************************************************************)
\* Most faulty bus answers (busy polls, failed transfers) within one
\* sequencing operation.
MaxSeqFaults == 1

NoPort == "NULL"
SSPPorts == {"LPC_SSP1"}

\* External clock rates handed to AD5932_Init (Hz), nonzero and below 2^30.
MCLKs == {16000000, 50000000}

RegBits_t == {0, 1}

\* u32 frequencies handed to the frequency setters.
Freqs ==
    {U32(0), U32(1), U32(1000), U32(8000000), U32(15999999), U32(16000000),
     U32(50000000), U32_7FFFFFFF, U32_80000000, U32_FFFFFFFF}

\* u16 counts handed to AD5932_SetIncrement and AD5932_SetIncrementIntervall.
Counts == {0, 1, 2, 2000, 2047, 2048, 4095, 4096, 65535}

\* 16-bit words handed to AD5932_SendSPICommand directly.
Words == {0, 4098, 65535}

\* Arguments of the sequencing operations.
SeqStartFreqs == {U32(0), U32(1000), U32_80000000}
SeqDeltaFreqs == {U32(1000), U32_80000000}
SeqIncrements == {U32(1), U32(2), U32(4096), U32(65538)}
SeqIntervalls == {U32(1), U32(2000), U32(2048), U32(65538)}

\* What SSP_Transfer returns: the number of frames sent, or a negative error.
SSPErrors == {-1, -2}
SSPTransferResults == {1} \cup SSPErrors

\* One answer of the bus to AD5932_SendSPICommand: the status poll and, when
\* the poll is clear, the transfer's result.
BusResponses ==
    {[status |-> SSP_STATUS_BUSY, xfer |-> 0]}
    \cup {[status |-> SSP_STATUS_CLEAR, xfer |-> x] : x \in SSPTransferResults}

\* Every sequence of n bus answers.
Scripts(n) == [1..n -> BusResponses]

\* Faulty bus answers recorded in a trace.
Faults(t) ==
    Cardinality({i \in DOMAIN t : \/ (t[i].e = "status" /\ t[i].status # SSP_STATUS_CLEAR)
                                  \/ (t[i].e = "xfer" /\ t[i].res < 0)})

(***************************************************************************)
(* The machine record the C functions act on: the command-word global, the *)
(* pins, the history of the call, the bus answers still to come and the    *)
(* value the last function returned.                                       *)
(***************************************************************************)
M(bus) ==
    [ad5932CMD |-> ad5932CMD, SPARE0 |-> SPARE0, SPARE1 |-> SPARE1,
     SPARE2 |-> SPARE2, SPARE3 |-> SPARE3, trace |-> trace, bus |-> bus, ret |-> 0]

Commit(m) ==
    /\ ad5932CMD' = m.ad5932CMD
    /\ SPARE0' = m.SPARE0
    /\ SPARE1' = m.SPARE1
    /\ SPARE2' = m.SPARE2
    /\ SPARE3' = m.SPARE3
    /\ trace' = m.trace

PinEvent(pin, state) == [e |-> "pin", pin |-> pin, v |-> state]

U16(x) == x % 65536

(***************************************************************************)
(* The C functions.                                                        *)
(***************************************************************************)
AD5932_SetFSYNCPin(m, state) ==
    [m EXCEPT !.SPARE0 = IF state THEN TRUE ELSE FALSE,
              !.trace = Append(@, PinEvent("FSYNC", state))]

AD5932_SetCTRLPin(m, state) ==
    [m EXCEPT !.SPARE2 = IF state THEN TRUE ELSE FALSE,
              !.trace = Append(@, PinEvent("CTRL", state))]

AD5932_SetINTPin(m, state) ==
    [m EXCEPT !.SPARE3 = IF state THEN TRUE ELSE FALSE,
              !.trace = Append(@, PinEvent("INT", state))]

AD5932_SetSTDBYPin(m, state) ==
    [m EXCEPT !.SPARE1 = IF state THEN TRUE ELSE FALSE,
              !.trace = Append(@, PinEvent("STDBY", state))]

\* SSP_GetTransferStatus: the status poll of the next bus answer.  A busy
\* answer is used up by the poll; a clear one is completed by SSP_Transfer.
SSP_GetTransferStatus(m) ==
    [m EXCEPT !.ret = Head(m.bus).status,
              !.bus = IF Head(m.bus).status = SSP_STATUS_CLEAR THEN @ ELSE Tail(@),
              !.trace = Append(@, [e |-> "status", status |-> Head(m.bus).status])]

\* SSP_Transfer of one frame: the word goes out under the pins as they stand.
SSP_Transfer(m, word) ==
    [m EXCEPT !.ret = Head(m.bus).xfer,
              !.bus = Tail(@),
              !.trace = Append(@, [e |-> "xfer", word |-> word, res |-> Head(m.bus).xfer,
                                   FSYNC |-> m.SPARE0, CTRL |-> m.SPARE2])]

\* Faulty variant: frame-select is driven low before the bus is polled.
SendSPICommand_FrameBeforePoll(m, commandWord) ==
    LET m0 == SSP_GetTransferStatus(AD5932_SetFSYNCPin(m, FALSE))
    IN  IF m0.ret = SSP_STATUS_CLEAR
        THEN LET m2 == SSP_Transfer(m0, commandWord)
                 m3 == AD5932_SetFSYNCPin(m2, TRUE)
             IN  IF m2.ret > 0 THEN [m3 EXCEPT !.ret = 0] ELSE [m3 EXCEPT !.ret = m2.ret]
        ELSE [AD5932_SetFSYNCPin(m0, TRUE) EXCEPT !.ret = AD5932_PORT_BUSY]

\* Faulty variant: a failed transfer returns before frame-select is raised.
SendSPICommand_FrameLeftLowOnError(m, commandWord) ==
    LET m0 == SSP_GetTransferStatus(m)
    IN  IF m0.ret = SSP_STATUS_CLEAR
        THEN LET m1 == AD5932_SetFSYNCPin(m0, FALSE)
                 m2 == SSP_Transfer(m1, commandWord)
             IN  IF m2.ret > 0 THEN [AD5932_SetFSYNCPin(m2, TRUE) EXCEPT !.ret = 0] ELSE m2
        ELSE [m0 EXCEPT !.ret = AD5932_PORT_BUSY]

AD5932_SendSPICommand(m, commandWord) ==
    LET m0 == SSP_GetTransferStatus(m)
    IN  IF m0.ret = SSP_STATUS_CLEAR
        THEN LET m1 == AD5932_SetFSYNCPin(m0, FALSE)
                 m2 == SSP_Transfer(m1, commandWord)
                 m3 == AD5932_SetFSYNCPin(m2, TRUE)
             IN  IF m2.ret > 0 THEN [m3 EXCEPT !.ret = 0] ELSE [m3 EXCEPT !.ret = m2.ret]
        ELSE [m0 EXCEPT !.ret = AD5932_PORT_BUSY]

\* Faulty variant: the waveform and MSB-out flags land on each other's bit.
SetControlRegister_SwappedBits(m, DAC_STATE, WAVE_TYPE, MBSOUT_STATE, TRIGGER_TYPE, SYNCSEL_STATE, SYNCOUT_STATE) ==
    LET fixed == 1 + Shl(1, 1) + Shl(1, 4) + Shl(1, 6) + Shl(1, 7) + Shl(1, 11)
        flags == Shl(SYNCOUT_STATE, 2) + Shl(SYNCSEL_STATE, 3) + Shl(TRIGGER_TYPE, 5)
                 + Shl(WAVE_TYPE, 8) + Shl(MBSOUT_STATE, 9) + Shl(DAC_STATE, 10)
        cmd == U16(fixed + flags)
    IN  AD5932_SendSPICommand([m EXCEPT !.ad5932CMD = cmd], cmd)

AD5932_SetControlRegister(m, DAC_STATE, WAVE_TYPE, MBSOUT_STATE, TRIGGER_TYPE, SYNCSEL_STATE, SYNCOUT_STATE) ==
    LET t0 == 1
        t1 == BitOr(t0, Shl(1, 1))
        t2 == BitOr(t1, Shl(SYNCOUT_STATE, 2))
        t3 == BitOr(t2, Shl(SYNCSEL_STATE, 3))
        t4 == BitOr(t3, Shl(1, 4))
        t5 == BitOr(t4, Shl(TRIGGER_TYPE, 5))
        t6 == BitOr(t5, Shl(1, 6))
        t7 == BitOr(t6, Shl(1, 7))
        t8 == BitOr(t7, Shl(MBSOUT_STATE, 8))
        t9 == BitOr(t8, Shl(WAVE_TYPE, 9))
        t10 == BitOr(t9, Shl(DAC_STATE, 10))
        temp == U16(BitOr(t10, Shl(1, 11)))
        cmd == U16(BitOr(AD5932_CREG, temp))
    IN  AD5932_SendSPICommand([m EXCEPT !.ad5932CMD = cmd], cmd)

\* Faulty variant: the upper bound is off by one.
SetIncrement_LooseBound(m, value) ==
    IF value > 4096 \/ value < 2
    THEN [m EXCEPT !.ret = AD5932_PARAM_ERROR]
    ELSE LET cmd == U16(BitOr(AD5932_NINCR, value))
         IN  AD5932_SendSPICommand([m EXCEPT !.ad5932CMD = cmd], cmd)

AD5932_SetIncrement(m, value) ==
    IF value > 4095 \/ value < 2
    THEN [m EXCEPT !.ret = AD5932_PARAM_ERROR]
    ELSE LET cmd == U16(BitOr(AD5932_NINCR, value))
         IN  AD5932_SendSPICommand([m EXCEPT !.ad5932CMD = cmd], cmd)

AD5932_SetIncrementIntervall(m, value, incrementBase) ==
    IF value > 2047 \/ value < 2
    THEN [m EXCEPT !.ret = AD5932_PARAM_ERROR]
    ELSE LET cmd == IF incrementBase = WAVE_OUT_BASED
                    THEN U16(BitOr(AD5932_TINT_WCYCLES, value))
                    ELSE U16(BitOr(MCLK_INP_BASED, value))
         IN  AD5932_SendSPICommand([m EXCEPT !.ad5932CMD = cmd], cmd)

\* Faulty variant: no range check before the two words are sent.
SetDeltaFrequency_NoRangeCheck(m, value, SweepType) ==
    LET tmp == FreqToTmp(value, ad5932MCLK)
        lo == U16(BitOr(AD5932_DFREQ_LO, U32AndFFF(tmp)))
        m1 == AD5932_SendSPICommand([m EXCEPT !.ad5932CMD = lo], lo)
        hi0 == U16(BitOr(AD5932_DFREQ_HI, U32AndFFF(U32Shr12(tmp))))
        hi == IF SweepType = DECREMENTAL_SWEEP THEN U16(BitOr(hi0, Shl(1, 11))) ELSE hi0
        m2 == AD5932_SendSPICommand([m1 EXCEPT !.ad5932CMD = hi], hi)
    IN  IF m1.ret = AD5932_PORT_BUSY THEN m1
        ELSE IF m2.ret = AD5932_PORT_BUSY THEN m2
        ELSE [m2 EXCEPT !.ret = 0]

AD5932_SetDeltaFrequency(m, value, SweepType) ==
    IF BigGt(value, U32_7FFFFFFF)
    THEN [m EXCEPT !.ret = AD5932_PARAM_ERROR]
    ELSE LET tmp == FreqToTmp(value, ad5932MCLK)
             lo == U16(BitOr(AD5932_DFREQ_LO, U32AndFFF(tmp)))
             m1 == AD5932_SendSPICommand([m EXCEPT !.ad5932CMD = lo], lo)
             hi0 == U16(BitOr(AD5932_DFREQ_HI, U32AndFFF(U32Shr12(tmp))))
             hi == IF SweepType = DECREMENTAL_SWEEP THEN U16(BitOr(hi0, Shl(1, 11))) ELSE hi0
             m2 == AD5932_SendSPICommand([m1 EXCEPT !.ad5932CMD = hi], hi)
         IN  IF m1.ret = AD5932_PORT_BUSY THEN m1
             ELSE IF m2.ret = AD5932_PORT_BUSY THEN m2
             ELSE [m2 EXCEPT !.ret = 0]

AD5932_SetStartFrequency(m, value) ==
    IF BigGt(value, U32_7FFFFFFF) \/ BigGt(U32(1), value)
    THEN [m EXCEPT !.ret = AD5932_PARAM_ERROR]
    ELSE LET tmp == FreqToTmp(value, ad5932MCLK)
             lo == U16(BitOr(AD5932_FSTART_LO, U32AndFFF(tmp)))
             m1 == AD5932_SendSPICommand([m EXCEPT !.ad5932CMD = lo], lo)
             hi == U16(BitOr(AD5932_FSTART_HI, U32AndFFF(U32Shr12(tmp))))
             m2 == AD5932_SendSPICommand([m1 EXCEPT !.ad5932CMD = hi], hi)
         IN  IF m1.ret = AD5932_PORT_BUSY THEN m1
             ELSE IF m2.ret = AD5932_PORT_BUSY THEN m2
             ELSE [m2 EXCEPT !.ret = 0]

\* delay_us: time passes, nothing else changes.
delay_us(m, us) == [m EXCEPT !.trace = Append(@, [e |-> "delay", us |-> us])]

\* Faulty variant: the control pin is not lowered after the pulse.
TriggerCTRLPin_LeftHigh(m) == delay_us(AD5932_SetCTRLPin(m, TRUE), 100)

\* Faulty variant: the pulse is given twice.
TriggerCTRLPin_Twice(m) ==
    LET once == AD5932_SetCTRLPin(delay_us(AD5932_SetCTRLPin(m, TRUE), 100), FALSE)
    IN  AD5932_SetCTRLPin(delay_us(AD5932_SetCTRLPin(once, TRUE), 100), FALSE)

AD5932_TriggerCTRLPin(m) ==
    AD5932_SetCTRLPin(delay_us(AD5932_SetCTRLPin(m, TRUE), 100), FALSE)

\* AD5932_SweepGenerator as one function of the machine, from entry to return.
AD5932_SweepGenerator(m, startFreq, deltaFrerq, increment, INCRTYPE, incIntervall, SWEEPTYPE, WAVE_TYPE, MSBOUT, TRIGGER, SYNCSEL, SYNCOUT) ==
    LET m1 == AD5932_SetControlRegister(AD5932_SetCTRLPin(m, FALSE), DAC_EN, WAVE_TYPE, MSBOUT,
                                        TRIGGER, SYNCSEL, SYNCOUT)
        m2 == AD5932_SetStartFrequency(m1, startFreq)
        m3 == AD5932_SetDeltaFrequency(m2, deltaFrerq, SWEEPTYPE)
        m4 == AD5932_SetIncrementIntervall(m3, ToU16(incIntervall), INCRTYPE)
        m5 == AD5932_SetIncrement(m4, ToU16(increment))
    IN  IF m1.ret < 0 THEN [m1 EXCEPT !.ret = -1]
        ELSE IF m2.ret < 0 THEN [m2 EXCEPT !.ret = -2]
        ELSE IF m3.ret < 0 THEN [m3 EXCEPT !.ret = -3]
        ELSE IF m4.ret < 0 THEN [m4 EXCEPT !.ret = -4]
        ELSE IF m5.ret < 0 THEN [m5 EXCEPT !.ret = -5]
        ELSE IF TRIGGER = AUTOMATIC_TRIGGER THEN [AD5932_TriggerCTRLPin(m5) EXCEPT !.ret = 0]
        ELSE [m5 EXCEPT !.ret = 0]

(***************************************************************************)
(* Initial state: the globals are zero-initialised C statics; the GPIO     *)
(* outputs stand wherever the board start-up left them.                    *)
(***************************************************************************)
NoCall == [fn |-> "none", pc |-> "idle", args |-> <<>>]

Init ==
    /\ SSPPort = NoPort
    /\ ad5932CMD = 0
    /\ ad5932MCLK = 0
    /\ SPARE0 \in BOOLEAN
    /\ SPARE1 \in BOOLEAN
    /\ SPARE2 \in BOOLEAN
    /\ SPARE3 \in BOOLEAN
    /\ call = NoCall
    /\ ret = 0
    /\ steps = <<>>
    /\ trace = <<>>

Idle == call.pc = "idle"

\* The bus may be used once AD5932_Init and AD5932_SetSPI have run, in that
\* order (usage notes of ad5932.c).
Ready == Idle /\ SSPPort # NoPort

\* A function that ran to its return in one step.
Returned(fn, args, result) ==
    \E m \in {result} :
       /\ Commit(m)
       /\ call' = [fn |-> fn, pc |-> "done", args |-> args]
       /\ ret' = m.ret
       /\ steps' = <<>>
       /\ UNCHANGED <<SSPPort, ad5932MCLK>>

\* The caller takes the returned value and goes on to its next call.
CallerContinue ==
    /\ call.pc = "done"
    /\ call' = NoCall
    /\ ret' = 0
    /\ steps' = <<>>
    /\ trace' = <<>>
    /\ UNCHANGED <<SSPPort, ad5932CMD, ad5932MCLK, SPARE0, SPARE1, SPARE2, SPARE3>>

AD5932_SetSPI ==
    /\ Idle
    /\ ad5932MCLK # 0
    /\ \E SSPx \in SSPPorts :
          /\ SSPPort' = SSPx
          /\ call' = [fn |-> "AD5932_SetSPI", pc |-> "done", args |-> [SSPx |-> SSPx]]
    /\ ret' = 0
    /\ UNCHANGED <<ad5932CMD, ad5932MCLK, SPARE0, SPARE1, SPARE2, SPARE3, steps, trace>>

\* Faulty variant: the standby pin is left as it was.
AD5932_Init_StandbyUntouched ==
    /\ Idle
    /\ \E MCLK \in MCLKs :
          LET m == AD5932_SetFSYNCPin(AD5932_SetINTPin(AD5932_SetCTRLPin(M(<<>>), FALSE), FALSE), TRUE)
          IN  /\ Commit(m)
              /\ ad5932MCLK' = MCLK
              /\ call' = [fn |-> "AD5932_Init", pc |-> "done", args |-> [MCLK |-> MCLK]]
    /\ ret' = 0
    /\ UNCHANGED <<SSPPort, steps>>

AD5932_Init ==
    /\ Idle
    /\ \E MCLK \in MCLKs :
          LET m == AD5932_SetSTDBYPin(AD5932_SetFSYNCPin(AD5932_SetINTPin(AD5932_SetCTRLPin(M(<<>>), FALSE), FALSE), TRUE), FALSE)
          IN  /\ Commit(m)
              /\ ad5932MCLK' = MCLK
              /\ call' = [fn |-> "AD5932_Init", pc |-> "done", args |-> [MCLK |-> MCLK]]
    /\ ret' = 0
    /\ UNCHANGED <<SSPPort, steps>>

CallSendSPICommand ==
    /\ Ready
    /\ \E commandWord \in Words, bus \in Scripts(1) :
          Returned("AD5932_SendSPICommand", [commandWord |-> commandWord],
                   AD5932_SendSPICommand(M(bus), commandWord))

CallSetControlRegister ==
    /\ Ready
    /\ \E DAC_STATE \in RegBits_t, WAVE_TYPE \in RegBits_t, MBSOUT_STATE \in RegBits_t,
          TRIGGER_TYPE \in RegBits_t, SYNCSEL_STATE \in RegBits_t, SYNCOUT_STATE \in RegBits_t,
          bus \in Scripts(1) :
          Returned("AD5932_SetControlRegister",
                   [DAC_STATE |-> DAC_STATE, WAVE_TYPE |-> WAVE_TYPE, MBSOUT_STATE |-> MBSOUT_STATE,
                    TRIGGER_TYPE |-> TRIGGER_TYPE, SYNCSEL_STATE |-> SYNCSEL_STATE,
                    SYNCOUT_STATE |-> SYNCOUT_STATE],
                   AD5932_SetControlRegister(M(bus), DAC_STATE, WAVE_TYPE, MBSOUT_STATE,
                                             TRIGGER_TYPE, SYNCSEL_STATE, SYNCOUT_STATE))

CallSetIncrement ==
    /\ Ready
    /\ \E value \in Counts, bus \in Scripts(1) :
          Returned("AD5932_SetIncrement", [value |-> value], AD5932_SetIncrement(M(bus), value))

CallSetIncrementIntervall ==
    /\ Ready
    /\ \E value \in Counts, incrementBase \in {WAVE_OUT_BASED, MCLK_INP_BASED}, bus \in Scripts(1) :
          Returned("AD5932_SetIncrementIntervall", [value |-> value, incrementBase |-> incrementBase],
                   AD5932_SetIncrementIntervall(M(bus), value, incrementBase))

CallSetDeltaFrequency ==
    /\ Ready
    /\ \E value \in Freqs, SweepType \in {INCREMENTAL_SWEEP, DECREMENTAL_SWEEP}, bus \in Scripts(2) :
          Returned("AD5932_SetDeltaFrequency", [value |-> value, SweepType |-> SweepType],
                   AD5932_SetDeltaFrequency(M(bus), value, SweepType))

CallSetStartFrequency ==
    /\ Ready
    /\ \E value \in Freqs, bus \in Scripts(2) :
          Returned("AD5932_SetStartFrequency", [value |-> value],
                   AD5932_SetStartFrequency(M(bus), value))

CallTriggerCTRLPin ==
    /\ Ready
    /\ Returned("AD5932_TriggerCTRLPin", <<>>, AD5932_TriggerCTRLPin(M(<<>>)))

(***************************************************************************)
(* The sequencing operations, one action per statement group: the first    *)
(* (CTRL low, then the control register), each further register step with  *)
(* its "if (ret < 0) return -k", and the closing trigger and "return 0".   *)
(***************************************************************************)
\* Faulty variant: a step of a sequencing operation overwrites the clock.
Step_ClockOverwritten(frame, m, code, next) ==
    /\ Faults(m.trace) <= MaxSeqFaults
    /\ Commit(m)
    /\ steps' = Append(steps, [ret |-> m.ret, len |-> Len(m.trace)])
    /\ IF m.ret < 0
       THEN ret' = code /\ call' = [frame EXCEPT !.pc = "done"]
       ELSE ret' = m.ret /\ call' = [frame EXCEPT !.pc = next]
    /\ ad5932MCLK' = m.ad5932CMD + 1
    /\ UNCHANGED SSPPort

\* ret = <step>; if (ret < 0) return code; otherwise on to the next step.
Step(frame, m, code, next) ==
    /\ Faults(m.trace) <= MaxSeqFaults
    /\ Commit(m)
    /\ steps' = Append(steps, [ret |-> m.ret, len |-> Len(m.trace)])
    /\ IF m.ret < 0
       THEN ret' = code /\ call' = [frame EXCEPT !.pc = "done"]
       ELSE ret' = m.ret /\ call' = [frame EXCEPT !.pc = next]
    /\ UNCHANGED <<SSPPort, ad5932MCLK>>

\* if (TRIGGER == AUTOMATIC_TRIGGER) AD5932_TriggerCTRLPin(); return 0;
Finish(trigger) ==
    /\ call.pc = "trigger"
    /\ Commit(IF trigger THEN AD5932_TriggerCTRLPin(M(<<>>)) ELSE M(<<>>))
    /\ ret' = 0
    /\ call' = [call EXCEPT !.pc = "done"]
    /\ UNCHANGED <<SSPPort, ad5932MCLK, steps>>

Frame(fn, args) == [fn |-> fn, pc |-> "ctrl", args |-> args]

SingleArgs ==
    [frequency : SeqStartFreqs, WAVE_TYPE : RegBits_t, MSBOUT : RegBits_t, TRIGGER : RegBits_t]

\* The flags of a sweep other than TRIGGER are all set or all clear.
SweepArgs ==
    {a \in [startFreq : SeqStartFreqs, deltaFrerq : SeqDeltaFreqs, increment : SeqIncrements,
            INCRTYPE : RegBits_t, incIntervall : SeqIntervalls, SWEEPTYPE : RegBits_t,
            WAVE_TYPE : RegBits_t, MSBOUT : RegBits_t, TRIGGER : RegBits_t,
            SYNCSEL : RegBits_t, SYNCOUT : RegBits_t] :
        /\ a.SWEEPTYPE = a.INCRTYPE
        /\ a.WAVE_TYPE = a.INCRTYPE
        /\ a.MSBOUT = a.INCRTYPE
        /\ a.SYNCSEL = a.INCRTYPE
        /\ a.SYNCOUT = a.INCRTYPE}

Single == "AD5932_SingleFrequencyGenerator"

SingleFrequencyGenerator_SetControlRegister ==
    /\ Ready
    /\ \E a \in SingleArgs, bus \in Scripts(1) :
          \E m \in {AD5932_SetControlRegister(AD5932_SetCTRLPin(M(bus), FALSE), DAC_EN, a.WAVE_TYPE,
                                              a.MSBOUT, EXTERNAL_TRIGGER, SYNCSEL_END, SYNCOUT_EN)} :
             Step(Frame(Single, a), m, -1, "start")

SingleFrequencyGenerator_SetStartFrequency ==
    /\ call.fn = Single
    /\ call.pc = "start"
    /\ \E bus \in Scripts(2) :
          \E m \in {AD5932_SetStartFrequency(M(bus), call.args.frequency)} :
             Step(call, m, -2, "trigger")

SingleFrequencyGenerator_Return ==
    /\ call.fn = Single
    /\ Finish(call.args.TRIGGER = AUTOMATIC_TRIGGER)

Sweep == "AD5932_SweepGenerator"

SweepGenerator_SetControlRegister ==
    /\ Ready
    /\ \E a \in SweepArgs, bus \in Scripts(1) :
          \E m \in {AD5932_SetControlRegister(AD5932_SetCTRLPin(M(bus), FALSE), DAC_EN, a.WAVE_TYPE,
                                              a.MSBOUT, a.TRIGGER, a.SYNCSEL, a.SYNCOUT)} :
             Step(Frame(Sweep, a), m, -1, "start")

SweepGenerator_SetStartFrequency ==
    /\ call.fn = Sweep
    /\ call.pc = "start"
    /\ \E bus \in Scripts(2) :
          \E m \in {AD5932_SetStartFrequency(M(bus), call.args.startFreq)} :
             Step(call, m, -2, "delta")

SweepGenerator_SetDeltaFrequency ==
    /\ call.fn = Sweep
    /\ call.pc = "delta"
    /\ \E bus \in Scripts(2) :
          \E m \in {AD5932_SetDeltaFrequency(M(bus), call.args.deltaFrerq, call.args.SWEEPTYPE)} :
             Step(call, m, -3, "interval")

SweepGenerator_SetIncrementIntervall ==
    /\ call.fn = Sweep
    /\ call.pc = "interval"
    /\ \E bus \in Scripts(1) :
          \E m \in {AD5932_SetIncrementIntervall(M(bus), ToU16(call.args.incIntervall),
                                                 call.args.INCRTYPE)} :
             Step(call, m, -4, "increment")

SweepGenerator_SetIncrement ==
    /\ call.fn = Sweep
    /\ call.pc = "increment"
    /\ \E bus \in Scripts(1) :
          \E m \in {AD5932_SetIncrement(M(bus), ToU16(call.args.increment))} :
             Step(call, m, -5, "trigger")

SweepGenerator_Return ==
    /\ call.fn = Sweep
    /\ Finish(call.args.TRIGGER = AUTOMATIC_TRIGGER)

Test == "AD5932_TestSetup"

TestSetup_SetControlRegister ==
    /\ Ready
    /\ \E bus \in Scripts(1) :
          \E m \in {AD5932_SetControlRegister(AD5932_SetCTRLPin(M(bus), FALSE), DAC_EN, SINE_OUT,
                                              MSBOUT_EN, AUTOMATIC_TRIGGER, SYNCSEL_END, SYNCOUT_EN)} :
             Step(Frame(Test, <<>>), m, -1, "start")

TestSetup_SetStartFrequency ==
    /\ call.fn = Test
    /\ call.pc = "start"
    /\ \E bus \in Scripts(2) :
          \E m \in {AD5932_SetStartFrequency(M(bus), U32(1000))} :
             Step(call, m, -2, "delta")

TestSetup_SetDeltaFrequency ==
    /\ call.fn = Test
    /\ call.pc = "delta"
    /\ \E bus \in Scripts(2) :
          \E m \in {AD5932_SetDeltaFrequency(M(bus), U32(1000), INCREMENTAL_SWEEP)} :
             Step(call, m, -3, "interval")

TestSetup_SetIncrementIntervall ==
    /\ call.fn = Test
    /\ call.pc = "interval"
    /\ \E bus \in Scripts(1) :
          \E m \in {AD5932_SetIncrementIntervall(M(bus), 2000, WAVE_OUT_BASED)} :
             Step(call, m, -4, "increment")

\* Faulty variant: the self-test programs three increments.
TestSetup_SetIncrement_Three ==
    /\ call.fn = Test
    /\ call.pc = "increment"
    /\ \E bus \in Scripts(1) :
          \E m \in {AD5932_SetIncrement(M(bus), 3)} :
             Step(call, m, -5, "trigger")

TestSetup_SetIncrement ==
    /\ call.fn = Test
    /\ call.pc = "increment"
    /\ \E bus \in Scripts(1) :
          \E m \in {AD5932_SetIncrement(M(bus), 2)} :
             Step(call, m, -5, "trigger")

TestSetup_Return ==
    /\ call.fn = Test
    /\ Finish(TRUE)

(***************************************************************************)
(* Specifications.  Start-up and the caller's return are common; the       *)
(* register setters are exercised over their full input domains, the       *)
(* sequencing operations over theirs, and Spec puts every operation side   *)
(* by side.                                                                *)
(***************************************************************************)
Setup ==
    \/ CallerContinue
    \/ AD5932_SetSPI
    \/ AD5932_Init

Setters ==
    \/ CallSendSPICommand
    \/ CallSetControlRegister
    \/ CallSetIncrement
    \/ CallSetIncrementIntervall
    \/ CallSetDeltaFrequency
    \/ CallSetStartFrequency

Sequencers ==
    \/ CallTriggerCTRLPin
    \/ SingleFrequencyGenerator_SetControlRegister
    \/ SingleFrequencyGenerator_SetStartFrequency
    \/ SingleFrequencyGenerator_Return
    \/ SweepGenerator_SetControlRegister
    \/ SweepGenerator_SetStartFrequency
    \/ SweepGenerator_SetDeltaFrequency
    \/ SweepGenerator_SetIncrementIntervall
    \/ SweepGenerator_SetIncrement
    \/ SweepGenerator_Return
    \/ TestSetup_SetControlRegister
    \/ TestSetup_SetStartFrequency
    \/ TestSetup_SetDeltaFrequency
    \/ TestSetup_SetIncrementIntervall
    \/ TestSetup_SetIncrement
    \/ TestSetup_Return

NextSet == Setup \/ Setters

NextSeq == Setup \/ Sequencers

Next == Setup \/ Setters \/ Sequencers

SpecSet == Init /\ [][NextSet]_vars

SpecSeq == Init /\ [][NextSeq]_vars

Spec == Init /\ [][Next]_vars

(***************************************************************************)
(* Vocabulary of the properties.                                           *)
(***************************************************************************)
Done(fn) == call.fn = fn /\ call.pc = "done"

IsXfer(ev) == ev.e = "xfer"

\* The words handed to the bus by the current call, in order.
Sent == LET x == SelectSeq(trace, IsXfer) IN [i \in 1..Len(x) |-> x[i].word]

Selector(word) == word \div 4096
Payload(word) == word % 4096

\* No status poll of the current call found the bus busy.
BusClear == \A i \in DOMAIN trace : trace[i].e = "status" => trace[i].status = SSP_STATUS_CLEAR

\* The CTRL pin was raised by the current call.
Triggered == \E i \in DOMAIN trace : trace[i] = PinEvent("CTRL", TRUE)

TriggerPulse == <<PinEvent("CTRL", TRUE), [e |-> "delay", us |-> 100], PinEvent("CTRL", FALSE)>>

\* The current call ended with a trigger pulse (after everything else it did).
EndsWithPulse ==
    /\ Len(trace) >= 3
    /\ SubSeq(trace, Len(trace) - 2, Len(trace)) = TriggerPulse
    /\ \A i \in 1..(Len(trace) - 3) : trace[i] # PinEvent("CTRL", TRUE)

InSequencer == call.fn \in {Single, Sweep, Test}

\* The trace positions of step k of a sequencing operation.
StepRange(k) == ((IF k = 1 THEN 0 ELSE steps[k - 1].len) + 1)..steps[k].len

\* A transfer of step k ended in a bus error.
StepBusError(k) == \E i \in StepRange(k) : trace[i].e = "xfer" /\ trace[i].res < 0

\* A word of step k or later went out.
SentFrom(k) == \E i \in DOMAIN trace : i >= steps[k].len + 1 /\ trace[i].e = "xfer"

\* Step k did not succeed: it returned busy, an error or a range error, or
\* one of its transfers failed.
StepNonSuccess(k) == steps[k].ret # 0 \/ StepBusError(k)

InRange(x, lo, hi) == ~BigGt(U32(lo), x) /\ ~BigGt(x, U32(hi))

\* acc = floor(f * 2^24 / mclk), by multiplication: acc*mclk <= f*2^24 < (acc+1)*mclk.
IsFloorAcc(acc, f, mclk) ==
    LET scaled == BigMul(f, U32(16777216))
    IN  /\ ~BigGt(BigMul(U32(acc), U32(mclk)), scaled)
        /\ BigGt(BigMul(U32(acc + 1), U32(mclk)), scaled)

(***************************************************************************)
(* C1.  In a sequencing operation, as soon as one step does not succeed    *)
(* (busy, bus error, range error) the operation aborts: that step is the   *)
(* last one run, no further word goes out, no trigger pulse is issued, and *)
(* the operation returns the negative code of that step.                   *)
(* The code does not do this (the sequencers test ret < 0, and busy and    *)
(* range errors are the positive 0xFFFF and 0xFFF0).                       *)
(***************************************************************************)
C1_AbortOnFirstNonSuccess ==
    InSequencer =>
        \A k \in DOMAIN steps :
            StepNonSuccess(k) =>
                /\ k = Len(steps)
                /\ call.pc = "done"
                /\ ret = -k
                /\ ~Triggered

(***************************************************************************)
(* C2.  Sweep setup called with a parameter out of range (start or delta   *)
(* frequency above 2^31-1, increment count outside [2,4095], increment     *)
(* interval outside [2,2047]) fails and sends no word at all.              *)
(* The code validates per step, after the control word has gone out.       *)
(***************************************************************************)
SweepOutOfRange(a) ==
    \/ BigGt(a.startFreq, U32_7FFFFFFF)
    \/ BigGt(a.deltaFrerq, U32_7FFFFFFF)
    \/ ~InRange(a.increment, 2, 4095)
    \/ ~InRange(a.incIntervall, 2, 2047)

C2_NoWordWhenOutOfRange ==
    (call.fn = Sweep /\ SweepOutOfRange(call.args)) =>
        /\ Sent = <<>>
        /\ call.pc = "done" => ret # 0

(***************************************************************************)
(* C3.  Whenever sweep setup returns success, exactly seven words went     *)
(* out, in the order control, start low, start high, delta low, delta      *)
(* high, increment interval, increment count, and the trigger pulse        *)
(* follows the seventh word if and only if the trigger mode is automatic.  *)
(* The code returns 0 also when a step was busy or out of range.           *)
(***************************************************************************)
C3_SuccessMeansSevenWords ==
    (Done(Sweep) /\ ret = 0) =>
        /\ Len(Sent) = 7
        /\ [i \in 1..5 |-> Selector(Sent[i])] = <<0, 12, 13, 2, 3>>
        /\ Selector(Sent[6]) \in {4, 6}
        /\ Selector(Sent[7]) = 1
        /\ (call.args.TRIGGER = AUTOMATIC_TRIGGER) <=> EndsWithPulse
        /\ (call.args.TRIGGER # AUTOMATIC_TRIGGER) => ~Triggered

(***************************************************************************)
(* C4.  During sweep setup, when the bus reports an error on a             *)
(* delta-frequency write, the sequence aborts with the failure code of the *)
(* delta-frequency step (the third step, -3); the start-frequency words    *)
(* stay sent, and no increment-interval word, no increment-count word and  *)
(* no trigger pulse follows.                                               *)
(* AD5932_SetDeltaFrequency returns 0 on a bus error, so the sweep goes on.*)
(***************************************************************************)
C4_DeltaBusErrorAborts ==
    (call.fn = Sweep /\ Len(steps) >= 3 /\ StepBusError(3)) =>
        /\ call.pc = "done"
        /\ ret = -3
        /\ Len(steps) = 3
        /\ ~SentFrom(3)
        /\ ~Triggered

(***************************************************************************)
(* C5.  For every frequency f with 0 < f <= mclk, start-frequency          *)
(* programming (bus clear) sends the low word (selector 1100) and then the *)
(* high word (selector 1101), and acc = high*4096 + low rebuilt from their *)
(* payloads is floor(f * 2^24 / mclk).  As stated this fails at f = mclk,  *)
(* where the quotient is 2^24 and does not fit the two payloads; it holds  *)
(* for 0 < f < mclk.                                                       *)
(***************************************************************************)
StartWordsEncode(f) ==
    /\ Len(Sent) = 2
    /\ Selector(Sent[1]) = 12
    /\ Selector(Sent[2]) = 13
    /\ LET acc == Payload(Sent[2]) * 4096 + Payload(Sent[1])
       IN  acc < 16777216 /\ IsFloorAcc(acc, f, ad5932MCLK)

C5_StartFrequencyUpToMclk ==
    (/\ Done("AD5932_SetStartFrequency")
     /\ BusClear
     /\ BigGt(call.args.value, U32(0))
     /\ ~BigGt(call.args.value, U32(ad5932MCLK))) => StartWordsEncode(call.args.value)

C5_StartFrequencyBelowMclk ==
    (/\ Done("AD5932_SetStartFrequency")
     /\ BusClear
     /\ BigGt(call.args.value, U32(0))
     /\ BigGt(U32(ad5932MCLK), call.args.value)
     /\ ~BigGt(call.args.value, U32_7FFFFFFF)) => StartWordsEncode(call.args.value)

C5_Witness ==
    /\ Done("AD5932_SetStartFrequency")
    /\ call.args.value = U32(15999999)
    /\ ad5932MCLK = 16000000
    /\ Sent = <<49152 + 4094, 53248 + 4095>>

(***************************************************************************)
(* C6.  For every increment interval t in [2,2047], increment-interval     *)
(* programming sends one word with payload t and selector 0100 on the      *)
(* waveform-cycle basis, 0110 on the clock-cycle basis; outside [2,2047]   *)
(* it returns the range error and sends nothing.                           *)
(* On the clock-cycle basis the code ors the value with MCLK_INP_BASED (0) *)
(* instead of AD5932_TINT_MCLKCYCLES, so the selector is 0000.             *)
(***************************************************************************)
C6_IntervalWord ==
    Done("AD5932_SetIncrementIntervall") =>
        LET t == call.args.value
            sel == IF call.args.incrementBase = WAVE_OUT_BASED THEN 4 ELSE 6
        IN  IF t \in 2..2047
            THEN /\ ret # AD5932_PARAM_ERROR
                 /\ BusClear => Sent = <<sel * 4096 + t>>
            ELSE ret = AD5932_PARAM_ERROR /\ trace = <<>>

(***************************************************************************)
(* C7.  For every accepted delta frequency, bit 11 of the payload of the   *)
(* delta-frequency-high word is set when the sweep is decrementing and     *)
(* clear when it is incrementing.                                          *)
(* The code keeps twelve bits of the high part, so bit 23 of the           *)
(* accumulator value lands on the direction bit (delta >= mclk/2).         *)
(***************************************************************************)
C7_DirectionBit ==
    (/\ Done("AD5932_SetDeltaFrequency")
     /\ ~BigGt(call.args.value, U32_7FFFFFFF)
     /\ Len(Sent) = 2) =>
        Bit(Payload(Sent[2]), 11) = (IF call.args.SweepType = DECREMENTAL_SWEEP THEN 1 ELSE 0)

(***************************************************************************)
(* C8.  Control-register encoding yields, for every combination of the six *)
(* flags and from every earlier state of the driver, the word with         *)
(* selector 0000 and payload bit0=1, bit1=1, bit2=sync-out enable,         *)
(* bit3=sync-select, bit4=1, bit5=trigger type, bit6=1, bit7=1,            *)
(* bit8=MSB-out enable, bit9=waveform, bit10=DAC enable, bit11=1; that     *)
(* word is the one handed to the bus.                                      *)
(***************************************************************************)
C8_ControlWordLayout ==
    Done("AD5932_SetControlRegister") =>
        LET w == ad5932CMD
            a == call.args
        IN  /\ Selector(w) = 0
            /\ [k \in 0..11 |-> Bit(w, k)] =
                   [k \in 0..11 |->
                       CASE k = 2 -> a.SYNCOUT_STATE
                         [] k = 3 -> a.SYNCSEL_STATE
                         [] k = 5 -> a.TRIGGER_TYPE
                         [] k = 8 -> a.MBSOUT_STATE
                         [] k = 9 -> a.WAVE_TYPE
                         [] k = 10 -> a.DAC_STATE
                         [] OTHER -> 1]
            /\ BusClear => Sent = <<w>>

C8_Witness ==
    /\ Done("AD5932_SetControlRegister")
    /\ call.args = [DAC_STATE |-> 1, WAVE_TYPE |-> 0, MBSOUT_STATE |-> 1, TRIGGER_TYPE |-> 0,
                    SYNCSEL_STATE |-> 1, SYNCOUT_STATE |-> 0]
    /\ Sent = <<3547>>

(***************************************************************************)
(* C9.  For every frequency above 2^31-1 the start-frequency setter and    *)
(* the delta-frequency setter return the range error and do nothing on     *)
(* the bus or the pins: no status poll, no transfer, FSYNC untouched.      *)
(***************************************************************************)
C9_FrequencyRangeError ==
    (/\ Done("AD5932_SetStartFrequency") \/ Done("AD5932_SetDeltaFrequency")
     /\ BigGt(call.args.value, U32_7FFFFFFF)) =>
        ret = AD5932_PARAM_ERROR /\ trace = <<>>

C9_Witness ==
    /\ Done("AD5932_SetDeltaFrequency")
    /\ call.args.value = U32_80000000
    /\ ret = AD5932_PARAM_ERROR
    /\ ad5932MCLK = 50000000

(***************************************************************************)
(* C10.  For every increment count n: in [2,4095] it is accepted and (bus  *)
(* clear) one word goes out, selector 0001, payload n; below 2 or above    *)
(* 4095 the setter returns the range error and does nothing on the bus.    *)
(***************************************************************************)
C10_IncrementWord ==
    Done("AD5932_SetIncrement") =>
        LET n == call.args.value
        IN  IF n \in 2..4095
            THEN /\ ret # AD5932_PARAM_ERROR
                 /\ BusClear => (Len(Sent) = 1 /\ Selector(Sent[1]) = 1 /\ Payload(Sent[1]) = n)
                 /\ ~BusClear => Sent = <<>>
            ELSE ret = AD5932_PARAM_ERROR /\ trace = <<>>

C10_Witness ==
    /\ Done("AD5932_SetIncrement")
    /\ call.args.value = 4095
    /\ Sent = <<8191>>
    /\ ret = 0

\* No bus answer of the current call was busy or an error.
BusPerfect == Faults(trace) = 0

\* The CTRL pin was raised exactly once by the current call.
TriggeredOnce == Cardinality({i \in DOMAIN trace : trace[i] = PinEvent("CTRL", TRUE)}) = 1

(***************************************************************************)
(* C11.  Single-frequency setup with 1000 Hz, sine, MSB-out enabled,       *)
(* automatic trigger and mclk = 50,000,000, on a clear bus with every      *)
(* transfer succeeding, sends a control word with sine=1, msb=1, dac=1 and *)
(* trigger bit 0, then the two words of acc = 335, low = 0x2000|0x14F and  *)
(* high = 0xD000|0x000, and then issues one trigger pulse.                 *)
(* The code always passes EXTERNAL_TRIGGER to the control register, so the *)
(* trigger bit is 1; the low word it sends is 0xC000|0x14F.                *)
(***************************************************************************)
C11_Call ==
    /\ Done(Single)
    /\ call.args = [frequency |-> U32(1000), WAVE_TYPE |-> SINE_OUT, MSBOUT |-> MSBOUT_EN,
                    TRIGGER |-> AUTOMATIC_TRIGGER]
    /\ ad5932MCLK = 50000000
    /\ BusPerfect

C11_SingleFrequencyScenario ==
    C11_Call =>
        /\ Len(Sent) = 3
        /\ Selector(Sent[1]) = 0
        /\ Bit(Sent[1], 9) = 1
        /\ Bit(Sent[1], 8) = 1
        /\ Bit(Sent[1], 10) = 1
        /\ Bit(Sent[1], 5) = 0
        /\ Sent[2] = 8192 + 335
        /\ Sent[3] = 53248 + 0
        /\ EndsWithPulse

(***************************************************************************)
(* C12.  Self-test with mclk = 16,000,000, the bus clear and every         *)
(* transfer succeeding, returns success and issues the trigger pulse       *)
(* exactly once: CTRL goes high once, after the last of the seven words,   *)
(* and is low again when the self-test returns.                            *)
(***************************************************************************)
C12_SelfTestSucceedsAndTriggersOnce ==
    (Done(Test) /\ ad5932MCLK = 16000000 /\ BusPerfect) =>
        /\ ret = 0
        /\ Len(Sent) = 7
        /\ TriggeredOnce
        /\ EndsWithPulse
        /\ SPARE2 = FALSE

C12_Witness ==
    /\ Done(Test)
    /\ ad5932MCLK = 16000000
    /\ BusPerfect
    /\ Sent = <<4063, 49152 + 1048, 53248, 8192 + 1048, 12288, 16384 + 2000, 4096 + 2>>
    /\ Triggered

\* The bus answers the current call met, in order, as a script for a rerun;
\* a clear poll and its transfer make one answer, a busy poll another.
RECURSIVE BusScript(_)
BusScript(t) ==
    IF t = <<>> THEN <<>>
    ELSE LET ev == Head(t)
             rest == BusScript(Tail(t))
         IN  IF ev.e = "status" /\ ev.status # SSP_STATUS_CLEAR
             THEN <<[status |-> ev.status, xfer |-> 0]>> \o rest
             ELSE IF ev.e = "xfer"
             THEN <<[status |-> SSP_STATUS_CLEAR, xfer |-> ev.res]>> \o rest
             ELSE rest

\* Answers for the words a rerun might send beyond those the call sent.
ClearAnswers == [i \in 1..7 |-> [status |-> SSP_STATUS_CLEAR, xfer |-> 1]]

\* Sweep setup with the parameters of the self-test, run from the pins as they
\* stand on the bus answers the current call met.  The claim leaves MSB-out,
\* sync-select and sync-out open; they are the values the self-test uses.
SweepWithTestParameters ==
    AD5932_SweepGenerator([M(BusScript(trace) \o ClearAnswers) EXCEPT !.trace = <<>>],
                          U32(1000), U32(1000), U32(2), WAVE_OUT_BASED, U32(2000),
                          INCREMENTAL_SWEEP, SINE_OUT, MSBOUT_EN, AUTOMATIC_TRIGGER,
                          SYNCSEL_END, SYNCOUT_EN)

(***************************************************************************)
(* C13.  Self-test is equivalent to sweep setup with the fixed parameters  *)
(* (sine, start 1000 Hz, delta 1000 Hz, interval 2000 waveform cycles,     *)
(* increment 2, incrementing, automatic trigger): for every clock          *)
(* frequency and every sequence of bus answers both send the same words,   *)
(* make the same pin events and return the same value.                     *)
(***************************************************************************)
C13_SelfTestIsSweepWithFixedParameters ==
    Done(Test) =>
        LET r == SweepWithTestParameters
        IN  /\ r.trace = trace
            /\ r.ret = ret
            /\ r.ad5932CMD = ad5932CMD
            /\ <<r.SPARE0, r.SPARE1, r.SPARE2, r.SPARE3>> = <<SPARE0, SPARE1, SPARE2, SPARE3>>

C13_Witness ==
    /\ Done(Test)
    /\ ad5932MCLK = 50000000
    /\ ret = -4
    /\ Sent = <<4063, 49152 + 335, 53248, 8192 + 335, 12288, 16384 + 2000>>
    /\ ~Triggered

IsBusyPoll(ev) == ev.e = "status" /\ ev.status # SSP_STATUS_CLEAR

IsFramePin(ev) == ev.e = "pin" /\ ev.pin = "FSYNC"

(***************************************************************************)
(* C14.  When the bus is busy at the moment of a frame-wrapped transmit,   *)
(* the transmit returns the busy outcome at once: frame-select is not      *)
(* touched (it stays high) and the transfer primitive is not invoked.      *)
(* Stated for the transmit called on its own, and for every busy poll met  *)
(* inside a register setter: what follows it is never a frame-select event *)
(* or a transfer.                                                          *)
(***************************************************************************)
C14_BusyTransmitHasNoEffect ==
    /\ (Done("AD5932_SendSPICommand") /\ ~BusClear) =>
           /\ ret = AD5932_PORT_BUSY
           /\ Len(trace) = 1
           /\ SPARE0 = TRUE
    /\ \A i \in DOMAIN trace :
           (IsBusyPoll(trace[i]) /\ i < Len(trace)) =>
               ~IsXfer(trace[i + 1]) /\ ~IsFramePin(trace[i + 1])

C14_Witness ==
    /\ Done("AD5932_SendSPICommand")
    /\ call.args.commandWord = 4098
    /\ ret = AD5932_PORT_BUSY
    /\ trace = <<[e |-> "status", status |-> SSP_STATUS_BUSY]>>
    /\ SPARE0 = TRUE

\* AD5932_Init has run: it is the only writer of the clock frequency.
Initialized == ad5932MCLK # 0

(***************************************************************************)
(* C15.  After initialization, and after any sequence of operations,       *)
(* frame-select is low during every 16-bit transfer and high whenever no   *)
(* transfer is in progress: it is driven low right before each word, is    *)
(* driven high right after it whether the transfer succeeded or failed,    *)
(* and is high in every state between two words and between operations.    *)
(***************************************************************************)
C15_FrameSelectBracketsEachWord ==
    Initialized =>
        /\ SPARE0 = TRUE
        /\ \A i \in DOMAIN trace :
               IsXfer(trace[i]) =>
                   /\ trace[i].FSYNC = FALSE
                   /\ i > 1
                   /\ trace[i - 1] = PinEvent("FSYNC", FALSE)
                   /\ i < Len(trace)
                   /\ trace[i + 1] = PinEvent("FSYNC", TRUE)

C15_Witness ==
    /\ Done(Sweep)
    /\ Len(Sent) = 7
    /\ \E i \in DOMAIN trace :
           /\ IsXfer(trace[i])
           /\ trace[i].res < 0
           /\ trace[i].FSYNC = FALSE
           /\ trace[i + 1] = PinEvent("FSYNC", TRUE)
    /\ SPARE0 = TRUE

RegisterSetters ==
    {"AD5932_SendSPICommand", "AD5932_SetControlRegister", "AD5932_SetIncrement",
     "AD5932_SetIncrementIntervall", "AD5932_SetStartFrequency", "AD5932_SetDeltaFrequency"}

\* The positions of the transfers of the current call that ended in an error.
ErrorXfers == {i \in DOMAIN trace : IsXfer(trace[i]) /\ trace[i].res < 0}

FirstErrorXfer == CHOOSE i \in ErrorXfers : \A j \in ErrorXfers : i <= j

(***************************************************************************)
(* C16.  Whenever the transfer primitive reports an error for a word, the  *)
(* frame-wrapped transmit and the register-programming operation that sent *)
(* the word (control register, increment count, increment interval, start  *)
(* frequency, delta frequency; either word of the last two) return that    *)
(* error unmodified.                                                       *)
(* AD5932_SetStartFrequency and AD5932_SetDeltaFrequency return 0 instead. *)
(***************************************************************************)
C16_TransferErrorReturned ==
    (call.pc = "done" /\ call.fn \in RegisterSetters /\ ErrorXfers # {}) =>
        ret = trace[FirstErrorXfer].res

IsBusEvent(ev) == ev.e \in {"status", "xfer"}

(***************************************************************************)
(* C17.  Initialization, from any earlier pin state, leaves the control    *)
(* signal low, the interrupt signal low, frame-select high and standby     *)
(* low, stores the given clock frequency, and does nothing on the bus (no  *)
(* status poll, no transfer).                                              *)
(***************************************************************************)
C17_InitPinsAndClock ==
    Done("AD5932_Init") =>
        /\ SPARE2 = FALSE
        /\ SPARE3 = FALSE
        /\ SPARE0 = TRUE
        /\ SPARE1 = FALSE
        /\ ad5932MCLK = call.args.MCLK
        /\ \A i \in DOMAIN trace : ~IsBusEvent(trace[i])

C17_Witness ==
    /\ Done("AD5932_Init")
    /\ call.args.MCLK = 16000000
    /\ ad5932MCLK = 16000000
    /\ SSPPort # NoPort
    /\ <<SPARE0, SPARE1, SPARE2, SPARE3>> = <<TRUE, FALSE, FALSE, FALSE>>

(***************************************************************************)
(* C18.  The configured clock frequency is written only by                 *)
(* initialization: every step of every other operation (port selection,    *)
(* the register setters, the trigger, single-frequency setup, sweep setup, *)
(* self-test, and the return to the caller) leaves it as it was, whatever  *)
(* the outcome.                                                            *)
(***************************************************************************)
C18_ClockWrittenOnlyByInit ==
    [][call'.fn # "AD5932_Init" => ad5932MCLK' = ad5932MCLK]_vars

C18_Witness ==
    /\ Done(Sweep)
    /\ ret = -5
    /\ Len(steps) = 5
    /\ ad5932MCLK = 16000000

(***************************************************************************)
(* C19.  No bus transfer ever happens while the control (start) signal is  *)
(* high, for any sequence of operations after initialization: every word   *)
(* goes out with CTRL low; a sequencing operation drives CTRL low before   *)
(* anything else, raises it only after its last command word, and CTRL is  *)
(* low again when the operation returns.                                   *)
(***************************************************************************)
C19_NoTransferWhileControlHigh ==
    Initialized =>
        /\ \A i \in DOMAIN trace : IsXfer(trace[i]) => trace[i].CTRL = FALSE
        /\ InSequencer => (trace # <<>> /\ trace[1] = PinEvent("CTRL", FALSE))
        /\ \A i \in DOMAIN trace :
               trace[i] = PinEvent("CTRL", TRUE) =>
                   \A j \in DOMAIN trace : j > i => ~IsXfer(trace[j])
        /\ SPARE2 = FALSE

C19_Witness ==
    /\ Done(Single)
    /\ ret = 0
    /\ Len(Sent) = 3
    /\ EndsWithPulse
    /\ SPARE2 = FALSE
    /\ \A i \in DOMAIN trace : IsXfer(trace[i]) => trace[i].CTRL = FALSE

\* The words sent by step k of the current sequencing operation.
StepWords(k) == {trace[i].word : i \in {j \in StepRange(k) : IsXfer(trace[j])}}

(***************************************************************************)
(* C20.  In sweep setup, for every 32-bit increment count and increment    *)
(* interval the caller supplies, an increment-interval word is sent only   *)
(* if the supplied interval is in [2,2047] and an increment-count word     *)
(* only if the supplied count is in [2,4095], and the payload sent equals  *)
(* the supplied value.                                                     *)
(* The setters take u16 parameters: the u32 arguments are cut to 16 bits   *)
(* before the range check, so 65538 is accepted as 2.                      *)
(***************************************************************************)
C20_NoOutOfRangeValueAfterNarrowing ==
    call.fn = Sweep =>
        /\ Len(steps) >= 4 =>
               \A w \in StepWords(4) :
                   /\ InRange(call.args.incIntervall, 2, 2047)
                   /\ U32(Payload(w)) = call.args.incIntervall
        /\ Len(steps) >= 5 =>
               \A w \in StepWords(5) :
                   /\ InRange(call.args.increment, 2, 4095)
                   /\ U32(Payload(w)) = call.args.increment

====
